---- MODULE Spec2Model ----
(***************************************************************************)
(* pdf-efficient-loader (src/index.js): the operator-list object counter,  *)
(* the page sampler and type classifier of analyzePdfType, and the five    *)
(* public operations as page-by-page drivers over the pdf.js parser.       *)
(*                                                                         *)
(* Six specifications share the variables:                                 *)
(*   SpecCount    - one call of countGraphicsObjects, one opcode per step  *)
(*   SpecSampler  - the page-index loop of analyzePdfType                  *)
(*   SpecClassify - the classification of analyzePdfType on given totals   *)
(*   SpecDictionary - the resource-dictionary count of one page            *)
(*   Spec         - one call of a public operation, one await per step     *)
(*   SpecTwice    - analyzePdfType called twice on the same document       *)
(***************************************************************************)
EXTENDS Integers, Sequences, FiniteSets, TLC

VARIABLES
    \* countGraphicsObjects (index.js:131-196)
    fnArray,            \* ops.fnArray, the opcode sequence being scanned
    i,                  \* loop index of the scan (opcodes consumed so far)
    imageCount,
    vectorCount,
    inVectorSequence,
    cpc,                \* position in countGraphicsObjects: "idle","scan","done"
    \* the sampling loop of analyzePdfType (index.js:416-422)
    sNumPages,          \* pdf.numPages
    sSamplePages,       \* options.samplePages
    sI,                 \* loop variable i
    sVisited,           \* the pageNum values passed to getPage, in order
    spc,                \* "idle","loop","done"
    \* the classification of analyzePdfType on its own (index.js:493-534)
    aggregate,          \* the counters and page numbers the loop leaves behind
    classified,         \* the object returned for them
    kpc,                \* "idle","called","done"
    \* the resource-dictionary count of extractPdfSmart on its own
    \* (index.js:602-635)
    pageDict,           \* the page whose resource dictionary is read
    dictCounts,         \* what the page adds to totalImages and totalVectors
    dpc,                \* "idle","called","done"
    \* one call of a public operation (index.js:51-664)
    api,                \* the exported function that was called
    fn,                 \* the function whose body is running (analyzePdfType
                        \* also runs inside extractPdfSmart)
    pdfSource,          \* the kind of value passed as pdfSource
    samplePages,        \* options.samplePages of analyzePdfType
    extractText,        \* options.extractText
    hasCallback,        \* whether onPageProcessed / onProgress was given
    doc,                \* the document behind pdfSource: its pages, in order
    gc,                 \* whether global.gc is defined while the call runs
    canvasPolyfillSetup,    \* the module-level flag of index.js:6
    earlier,            \* the calls of analyzePdfType that have returned before
    pc,                 \* the await the call is suspended at, or how it settled
    idx,                \* loop iterations completed (pageNum - 1, or i)
    pageNum,            \* the page being processed
    totalImages,
    totalVectors,
    totalText,
    pagesWithLargeImages,
    textChunks,         \* the text gathered so far: the array textChunks of
                        \* extractPdfDataStreaming, elsewhere the string fullText
    held,               \* pages fetched by getPage and not yet cleaned up
    opsLive,            \* pages whose operator list is fetched and not yet nulled
    calls,              \* the requests made to the parser, in order
    events,             \* the callback invocations, in order
    thrown,             \* index in events of the invocation that threw, or 0
    analysis,           \* extractPdfSmart: the value analyzePdfType returned
    result,             \* the value the call resolved with
    err                 \* the error the call rejected with

countVars == <<fnArray, i, imageCount, vectorCount, inVectorSequence, cpc>>
samplerVars == <<sNumPages, sSamplePages, sI, sVisited, spc>>
classifyVars == <<aggregate, classified, kpc>>
dictVars == <<pageDict, dictCounts, dpc>>
callVars == <<api, pdfSource, samplePages, extractText, hasCallback, doc, gc,
              canvasPolyfillSetup, earlier>>
loopVars == <<idx, pageNum>>
totalVars == <<totalImages, totalVectors, totalText, pagesWithLargeImages, textChunks>>
runVars == <<callVars, fn, pc, loopVars, totalVars, held, opsLive, calls, events,
             thrown, analysis, result, err>>
vars == <<countVars, samplerVars, classifyVars, dictVars, runVars>>

\* ------------------------------------------------------------------ bounds
MaxLen == 3             \* longest operator list scanned in SpecCount
MaxTotalPages == 12     \* largest pdf.numPages in SpecSampler
MaxSampleSize == 7      \* largest samplePages in SpecSampler
MaxPages == 3           \* longest document in Spec
MaxSample == 3          \* largest options.samplePages in Spec
MaxLongPages == 10      \* longest single-kind document in Spec
MaxDocPages == 27       \* largest pdf.numPages in SpecClassify
MaxSampleArg == 6       \* largest options.samplePages in SpecClassify
MaxSum == 13            \* largest small image total drawn in SpecClassify
MaxEntries == 3         \* most XObject entries of a page in SpecDictionary
MaxCategory == 2        \* most Pattern, and Shading, entries in SpecDictionary

\* ------------------------------------------------------- helper operators
Min(a, b) == IF a <= b THEN a ELSE b
Max(a, b) == IF a >= b THEN a ELSE b

RECURSIVE SeqsUpTo(_, _)
SeqsUpTo(S, n) ==
    IF n = 0 THEN {<<>>}
    ELSE LET shorter == SeqsUpTo(S, n - 1)
         IN shorter \cup {Append(s, x) : s \in {t \in shorter : Len(t) = n - 1}, x \in S}

\* ------------------------------------------------- countGraphicsObjects
\* index.js:138-142
IMAGE_OPS == {"paintImageXObject", "paintInlineImageXObject", "paintImageMaskXObject"}

\* index.js:177, the inline array of operators that terminate a vector object
TERMINATOR_OPS == {"stroke", "fill", "eoFill", "fillStroke", "eoFillStroke"}

\* the members of VECTOR_OPS that are neither terminators nor constructPath
PATH_SEGMENT_OPS ==
    {"closePath", "rectangle", "moveTo", "lineTo", "curveTo", "curveTo2", "curveTo3"}

\* index.js:145-159
VECTOR_OPS == TERMINATOR_OPS \cup PATH_SEGMENT_OPS \cup {"constructPath"}

\* pdfjsLib.OPS members in neither array (two representatives)
OTHER_OPS == {"save", "showText"}

OPS == IMAGE_OPS \cup VECTOR_OPS \cup OTHER_OPS

\* index.js:132-133,162: the counters and the flag before the scan
CountInit == [imageCount |-> 0, vectorCount |-> 0, inVectorSequence |-> FALSE]

\* index.js:173-176: the constructPath branch, the first `if` inside the
\* VECTOR_OPS branch
ConstructPathBranch(s, op) ==
    IF op = "constructPath"
    THEN [s EXCEPT !.vectorCount = @ + 1, !.inVectorSequence = FALSE]
    ELSE s

\* a terminator that counts a shape whether or not a sequence is open
TerminatorBranchAlwaysCounts(s, op) ==
    IF op \in TERMINATOR_OPS
    THEN [s EXCEPT !.vectorCount = @ + 1, !.inVectorSequence = FALSE]
    ELSE [s EXCEPT !.inVectorSequence = TRUE]

\* index.js:177-186: the second `if` inside the VECTOR_OPS branch; it is not
\* an `else if`, so it also runs for constructPath, which takes its else arm
TerminatorBranch(s, op) ==
    IF op \in TERMINATOR_OPS
    THEN IF s.inVectorSequence
         THEN [s EXCEPT !.vectorCount = @ + 1, !.inVectorSequence = FALSE]
         ELSE s
    ELSE [s EXCEPT !.inVectorSequence = TRUE]

\* an image that leaves an open vector sequence open
ImageBranchKeepsSequence(s, op) ==
    [s EXCEPT !.imageCount = @ + 1]

\* index.js:167-170: the IMAGE_OPS branch
ImageBranch(s, op) ==
    [s EXCEPT !.imageCount = @ + 1, !.inVectorSequence = FALSE]

\* index.js:164-187: the loop body for one opcode
ScanStep(s, op) ==
    IF op \in IMAGE_OPS THEN ImageBranch(s, op)
    ELSE IF op \in VECTOR_OPS THEN TerminatorBranch(ConstructPathBranch(s, op), op)
    ELSE s

\* a scan that forgets the sequence still open at end of stream
EndOfStreamDropsOpen(s) == s

\* index.js:190-193: "If vector sequence remained open"
EndOfStream(s) ==
    IF s.inVectorSequence THEN [s EXCEPT !.vectorCount = @ + 1] ELSE s

RECURSIVE ScanFrom(_, _, _)
ScanFrom(s, ops, k) ==
    IF k > Len(ops) THEN s ELSE ScanFrom(ScanStep(s, ops[k]), ops, k + 1)

\* index.js:131-196 as a function of the operator list
countGraphicsObjects(ops) ==
    LET s == EndOfStream(ScanFrom(CountInit, ops, 1))
    IN [imageCount |-> s.imageCount, vectorCount |-> s.vectorCount]

CountState ==
    [imageCount |-> imageCount, vectorCount |-> vectorCount,
     inVectorSequence |-> inVectorSequence]

\* index.js:131-162: the call, with the operator list the parser produced
CountCall ==
    /\ cpc = "idle"
    /\ \E ops \in SeqsUpTo(OPS, MaxLen) : fnArray' = ops
    /\ i' = 0
    /\ imageCount' = CountInit.imageCount
    /\ vectorCount' = CountInit.vectorCount
    /\ inVectorSequence' = CountInit.inVectorSequence
    /\ cpc' = "scan"
    /\ UNCHANGED <<samplerVars, classifyVars, dictVars, runVars>>

\* index.js:163-188: one iteration of the for loop
CountLoop ==
    /\ cpc = "scan"
    /\ i < Len(fnArray)
    /\ LET s == ScanStep(CountState, fnArray[i + 1])
       IN /\ imageCount' = s.imageCount
          /\ vectorCount' = s.vectorCount
          /\ inVectorSequence' = s.inVectorSequence
    /\ i' = i + 1
    /\ UNCHANGED <<fnArray, cpc, samplerVars, classifyVars, dictVars, runVars>>

\* index.js:190-195: loop exit, the end-of-stream rule and the return
CountReturn ==
    /\ cpc = "scan"
    /\ i = Len(fnArray)
    /\ LET s == EndOfStream(CountState)
       IN /\ imageCount' = s.imageCount
          /\ vectorCount' = s.vectorCount
          /\ inVectorSequence' = s.inVectorSequence
    /\ cpc' = "done"
    /\ UNCHANGED <<fnArray, i, samplerVars, classifyVars, dictVars, runVars>>

CountIdle ==
    /\ fnArray = <<>>
    /\ i = 0
    /\ imageCount = 0
    /\ vectorCount = 0
    /\ inVectorSequence = FALSE
    /\ cpc = "idle"

SamplerIdle ==
    /\ sNumPages = 1
    /\ sSamplePages = 1
    /\ sI = 0
    /\ sVisited = <<>>
    /\ spc = "idle"

\* no public operation has been called
ClassifyIdle ==
    /\ aggregate = [images |-> 0, vectors |-> 0, text |-> 0, largePages |-> 0,
                    samplePages |-> 0, numPages |-> 0]
    /\ classified = "none"
    /\ kpc = "idle"

DictIdle ==
    /\ pageDict = [textItems |-> 0, fnArray |-> <<>>, resources |-> FALSE,
                   hasXObject |-> FALSE, xobjects |-> <<>>, patterns |-> 0,
                   shadings |-> 0]
    /\ dictCounts = [imageCount |-> 0, vectorCount |-> 0]
    /\ dpc = "idle"

RunIdle ==
    /\ api = "none"
    /\ fn = "none"
    /\ pdfSource = "string"
    /\ samplePages = 0
    /\ extractText = TRUE
    /\ hasCallback = FALSE
    /\ doc = <<>>
    /\ gc = FALSE
    /\ canvasPolyfillSetup = FALSE
    /\ earlier = <<>>
    /\ pc = "idle"
    /\ idx = 0
    /\ pageNum = 0
    /\ totalImages = 0
    /\ totalVectors = 0
    /\ totalText = 0
    /\ pagesWithLargeImages = 0
    /\ textChunks = <<>>
    /\ held = {}
    /\ opsLive = {}
    /\ calls = <<>>
    /\ events = <<>>
    /\ thrown = 0
    /\ analysis = "none"
    /\ result = "none"
    /\ err = "none"

InitCount == CountIdle /\ SamplerIdle /\ ClassifyIdle /\ DictIdle /\ RunIdle
NextCount == CountCall \/ CountLoop \/ CountReturn
SpecCount == InitCount /\ [][NextCount]_vars

\* ------------------------------------------------ analyzePdfType sampling
\* a sample size that is not clamped to the document length
PagesToAnalyzeUnclamped(sample, numPages) == sample

\* index.js:417
PagesToAnalyze(sample, numPages) == Min(sample, numPages)

\* a step rounded up instead of down
StepRoundsUp(numPages, pagesToAnalyze) ==
    Max(1, (numPages + pagesToAnalyze - 1) \div pagesToAnalyze)

\* index.js:418; read only inside the loop, where pagesToAnalyze >= 1
\* (for pagesToAnalyze = 0 the quotient is Infinity or NaN and never used)
Step(numPages, pagesToAnalyze) == Max(1, numPages \div pagesToAnalyze)

\* index.js:421
PageNumAt(k, numPages, pagesToAnalyze) ==
    Min(1 + k * Step(numPages, pagesToAnalyze), numPages)

\* index.js:409-419: a loaded document and a sample budget
SamplerCall ==
    /\ spc = "idle"
    /\ \E n \in 1..MaxTotalPages : sNumPages' = n
    /\ \E k \in 1..MaxSampleSize : sSamplePages' = k
    /\ sI' = 0
    /\ sVisited' = <<>>
    /\ spc' = "loop"
    /\ UNCHANGED <<countVars, classifyVars, dictVars, runVars>>

\* index.js:420-422: one iteration, up to the getPage request
SamplerLoop ==
    /\ spc = "loop"
    /\ sI < PagesToAnalyze(sSamplePages, sNumPages)
    /\ sVisited' = Append(sVisited,
                          PageNumAt(sI, sNumPages, PagesToAnalyze(sSamplePages, sNumPages)))
    /\ sI' = sI + 1
    /\ UNCHANGED <<sNumPages, sSamplePages, spc, countVars, classifyVars, dictVars, runVars>>

\* index.js:420: loop exit
SamplerExit ==
    /\ spc = "loop"
    /\ ~(sI < PagesToAnalyze(sSamplePages, sNumPages))
    /\ spc' = "done"
    /\ UNCHANGED <<sNumPages, sSamplePages, sI, sVisited, countVars, classifyVars,
                   dictVars, runVars>>

InitSampler == CountIdle /\ SamplerIdle /\ ClassifyIdle /\ DictIdle /\ RunIdle
NextSampler == SamplerCall \/ SamplerLoop \/ SamplerExit
SpecSampler == InitSampler /\ [][NextSampler]_vars


\* ----------------------------------------------------- JavaScript numbers
\* The quotients and confidences of analyzePdfType are kept as exact
\* fractions; NaN is the value of 0/0 and of every operation on NaN.
NaN == [nan |-> TRUE, num |-> 0, den |-> 1]
Rat(n, d) == [nan |-> FALSE, num |-> n, den |-> d]

\* a / b for counters a >= 0 and b >= 0 (0/0 is NaN; a/0 with a > 0 cannot
\* arise, the totals of an empty sample being 0)
JsDiv(a, b) == IF b = 0 THEN NaN ELSE Rat(a, b)

JsAdd(x, y) ==
    IF x.nan \/ y.nan THEN NaN ELSE Rat(x.num * y.den + y.num * x.den, x.den * y.den)
JsMul(x, y) == IF x.nan \/ y.nan THEN NaN ELSE Rat(x.num * y.num, x.den * y.den)
\* comparisons with NaN are false
JsLt(x, y) == ~x.nan /\ ~y.nan /\ x.num * y.den < y.num * x.den
JsLe(x, y) == ~x.nan /\ ~y.nan /\ x.num * y.den <= y.num * x.den
JsEq(x, y) == ~x.nan /\ ~y.nan /\ x.num * y.den = y.num * x.den
\* Math.min: NaN if either argument is NaN
MathMin(x, y) == IF x.nan \/ y.nan THEN NaN ELSE IF JsLe(x, y) THEN x ELSE y
\* Math.round of a value >= 0: floor(x + 0.5); Math.round(NaN) is NaN
MathRound(x) == IF x.nan THEN NaN ELSE Rat((2 * x.num + x.den) \div (2 * x.den), 1)
\* parseFloat(x.toFixed(2)) of a value >= 0; NaN.toFixed(2) is "NaN".  The
\* quotients it is applied to have denominators below 40, for which no
\* quotient lies on a rounding boundary of toFixed without being exact.
ToFixed2(x) ==
    IF x.nan THEN NaN ELSE Rat((200 * x.num + x.den) \div (2 * x.den), 100)

\* The largest e with 2^e <= num / den, for num > 0 and den > 0: the binary
\* exponent of the double nearest to num / den.
RECURSIVE FloorLog2(_, _)
FloorLog2(num, den) ==
    IF num < den THEN FloorLog2(2 * num, den) - 1
    ELSE IF num >= 2 * den THEN FloorLog2(num, 2 * den) + 1
    ELSE 0

RECURSIVE Pow2(_)
Pow2(n) == IF n = 0 THEN 1 ELSE 2 * Pow2(n - 1)

\* 2^n modulo m
RECURSIVE Pow2Mod(_, _)
Pow2Mod(n, m) == IF n = 0 THEN 1 % m ELSE (2 * Pow2Mod(n - 1, m)) % m

\* an estimate that is the sum over the sample, not scaled to the document
EstimatedTotalOfSample(total, pages, numPages) ==
    IF pages = 0 THEN NaN ELSE Rat(total, 1)

\* Math.round((total / pages) * numPages) in IEEE-754 double arithmetic, for
\* counters total >= 0, pages >= 0 and numPages >= 1.  The quotient is
\* rounded to 53 significant bits before it is multiplied.  The two
\* roundings are far too small to move the product across k + 1/2 unless the
\* exact value total * numPages / pages is k + 1/2 itself; then Math.round
\* gives k + 1 if the rounded product is still k + 1/2, and k if it fell below:
\*   r      the part of total / pages cut off below its last mantissa bit, in
\*          units of 1/pages of that bit (0: the quotient is exact; more
\*          than half: the quotient was rounded up)
\*   e, a   the binary exponents of the quotient and of the product
\* The product of the rounded-down quotient is k + 1/2 - numPages * (r/pages)
\* * 2^(e-52), which rounds back to k + 1/2 iff that distance is at most half
\* the spacing of doubles just below k + 1/2 (2^(a-52), or 2^(a-53) below a
\* power of two, which for a half-integer is 1/2 only).
EstimatedTotal(total, pages, numPages) ==
    IF pages = 0 THEN NaN
    ELSE IF total = 0 THEN Rat(0, 1)
    ELSE LET k == (total * numPages) \div pages
             isHalf == /\ (2 * total * numPages) % pages = 0
                       /\ ((2 * total * numPages) \div pages) % 2 = 1
             e == FloorLog2(total, pages)
             r == ((total % pages) * Pow2Mod(52 - e, pages)) % pages
             a == FloorLog2(total * numPages, pages)
             c == IF 2 * total * numPages = pages THEN 4 ELSE 2
         IN IF ~isHalf THEN MathRound(Rat(total * numPages, pages))
            ELSE IF r = 0 \/ 2 * r > pages THEN Rat(k + 1, 1)
            ELSE IF c * numPages * r <= pages * Pow2(a - e) THEN Rat(k + 1, 1)
            ELSE Rat(k, 1)

\* --------------------------------------------------------------- strings
\* A string is the sequence of its characters.
\* the characters String.prototype.trim removes, among those that occur
Whitespace == {" ", "\n"}

RECURSIVE TrimStart(_)
TrimStart(s) ==
    IF s = <<>> THEN s
    ELSE IF Head(s) \in Whitespace THEN TrimStart(Tail(s)) ELSE s

RECURSIVE TrimEnd(_)
TrimEnd(s) ==
    IF s = <<>> THEN s
    ELSE IF s[Len(s)] \in Whitespace THEN TrimEnd(SubSeq(s, 1, Len(s) - 1)) ELSE s

\* s.trim()
Trim(s) == TrimEnd(TrimStart(s))

\* chunks.join('\n')
RECURSIVE JoinLines(_)
JoinLines(chunks) ==
    IF chunks = <<>> THEN <<>>
    ELSE IF Len(chunks) = 1 THEN chunks[1]
    ELSE chunks[1] \o <<"\n">> \o JoinLines(Tail(chunks))

\* a page text appended without the newline after it
AppendPageTextNoNewline(fullText, pageText) == fullText \o pageText

\* index.js:90, 329, 600: fullText += pageText + '\n'
AppendPageText(fullText, pageText) == fullText \o pageText \o <<"\n">>

\* ------------------------------------------------------------ the parser
\* What pdf.js exposes for one page.  An XObject entry is named by what its
\* lookups give: Subtype, Width, Height, or a throwing get.
XObjectKinds == {"LargeImage", "SmallImage", "Form", "Broken"}
Throws(e) == e = "Broken"
Subtype(e) == IF e \in {"LargeImage", "SmallImage"} THEN "Image" ELSE "Form"
Width(e) == IF e = "LargeImage" THEN 2480 ELSE IF e = "SmallImage" THEN 64 ELSE 0
Height(e) == IF e = "LargeImage" THEN 3508 ELSE IF e = "SmallImage" THEN 64 ELSE 0

\* A page carries, besides what the counters read, pageText: the characters of
\* textContent.items.map(item => item.str).join(' '), cut short.
\* a typeset page: text only
TextPage ==
    [textItems |-> 50, pageText |-> <<"a", " ", "b">>, fnArray |-> <<"showText">>,
     resources |-> TRUE, hasXObject |-> FALSE, xobjects |-> <<>>,
     patterns |-> 0, shadings |-> 0]
\* a scanned page: one full-page image XObject
ScanPage ==
    [textItems |-> 0, pageText |-> <<>>, fnArray |-> <<"paintImageXObject">>,
     resources |-> TRUE, hasXObject |-> TRUE, xobjects |-> <<"Broken", "LargeImage">>,
     patterns |-> 0, shadings |-> 0]
\* a drawing: two shapes, a form XObject, a pattern and a shading
VectorPage ==
    [textItems |-> 2, pageText |-> <<"x", " ">>,
     fnArray |-> <<"moveTo", "lineTo", "stroke", "rectangle", "fill">>,
     resources |-> TRUE, hasXObject |-> TRUE, xobjects |-> <<"Form", "SmallImage">>,
     patterns |-> 1, shadings |-> 1]
\* a page whose only image is inline and whose resource dictionary is not
\* reachable
InlinePage ==
    [textItems |-> 1, pageText |-> <<" ">>, fnArray |-> <<"paintInlineImageXObject">>,
     resources |-> FALSE, hasXObject |-> FALSE, xobjects |-> <<>>,
     patterns |-> 0, shadings |-> 0]

PageKinds == {TextPage, ScanPage, VectorPage, InlinePage}

\* every document of up to MaxPages pages, and the longer ones made of one
\* kind of page
Documents ==
    (SeqsUpTo(PageKinds, MaxPages) \ {<<>>})
        \cup {[k \in 1..n |-> p] : n \in (MaxPages + 1)..MaxLongPages, p \in PageKinds}

SourceKinds == {"string", "Buffer", "Uint8Array", "number"}

Apis == {"extractPdfData", "extractPdfDataStreaming", "extractPdfStats",
         "analyzePdfType", "extractPdfSmart"}

\* index.js:554: the sample size extractPdfSmart passes to analyzePdfType
SmartSamplePages == 5

\* index.js:392: options.samplePages when the caller gives none
DefaultSamplePages == 5

\* a loader that takes whatever it is given
loadPdfDataAcceptsAll(source) == "bytes"

\* index.js:32-42: "bytes" for a returned Uint8Array, else the message thrown.
\* `source instanceof Buffer` is false for a plain Uint8Array.  A string is
\* taken to name a readable file.
loadPdfData(source) ==
    IF source = "string" THEN "bytes"
    ELSE IF source = "Buffer" THEN "bytes"
    ELSE "Invalid source"

\* index.js:447-472: 1 if the page is flagged as holding a large image
RECURSIVE FirstLargeImage(_, _)
FirstLargeImage(xobjects, k) ==
    IF k > Len(xobjects) THEN 0
    ELSE IF /\ ~Throws(xobjects[k])
            /\ Subtype(xobjects[k]) = "Image"
            /\ Width(xobjects[k]) > 1000
            /\ Height(xobjects[k]) > 1000
         THEN 1
         ELSE FirstLargeImage(xobjects, k + 1)

LargeImageFlag(page, counts) ==
    IF counts.imageCount > 0
    THEN IF page.resources /\ page.hasXObject
         THEN FirstLargeImage(page.xobjects, 1)
         ELSE 1
    ELSE 0

\* counts taken from the page's operator list instead
DictionaryCountsFromOps(page) == countGraphicsObjects(page.fnArray)

\* a count in which the first failing XObject lookup ends the work on the
\* page: the entries after it, the patterns and the shadings are not counted
DictionaryCountsAbortsAtThrow(page) ==
    IF ~page.resources THEN [imageCount |-> 0, vectorCount |-> 0]
    ELSE LET xs == IF page.hasXObject THEN page.xobjects ELSE <<>>
             bad == {k \in 1..Len(xs) : Throws(xs[k])}
             ok == {k \in 1..Len(xs) : \A b \in bad : k < b}
         IN [imageCount |-> Cardinality({k \in ok : Subtype(xs[k]) = "Image"}),
             vectorCount |-> Cardinality({k \in ok : Subtype(xs[k]) = "Form"})
                             + (IF bad = {} THEN page.patterns + page.shadings ELSE 0)]

\* index.js:602-635: the counts extractPdfSmart reads from the resource
\* dictionary of one page
DictionaryCounts(page) ==
    IF ~page.resources THEN [imageCount |-> 0, vectorCount |-> 0]
    ELSE LET xs == IF page.hasXObject THEN page.xobjects ELSE <<>>
             ok == {k \in 1..Len(xs) : ~Throws(xs[k])}
         IN [imageCount |-> Cardinality({k \in ok : Subtype(xs[k]) = "Image"}),
             vectorCount |-> Cardinality({k \in ok : Subtype(xs[k]) = "Form"})
                             + page.patterns + page.shadings]

\* a scan test without the upper limit on images
IsScanUnbounded(avgTextPerPage, avgImagesPerPage) ==
    /\ JsLt(avgTextPerPage, Rat(30, 1))
    /\ JsLt(Rat(0, 1), avgImagesPerPage)

\* index.js:504: the condition of the scan branch
IsScan(avgTextPerPage, avgImagesPerPage) ==
    /\ JsLt(avgTextPerPage, Rat(30, 1))
    /\ JsLt(Rat(0, 1), avgImagesPerPage)
    /\ JsLe(avgImagesPerPage, Rat(100, 1))

\* index.js:509: the condition of the vector branch, reached if IsScan fails
IsVector(avgTextPerPage, avgImagesPerPage, avgVectorsPerPage) ==
    /\ JsLt(avgTextPerPage, Rat(30, 1))
    /\ JsEq(avgImagesPerPage, Rat(0, 1))
    /\ JsLt(Rat(0, 1), avgVectorsPerPage)

\* index.js:506
ScanConfidence(avgImagesPerPage) ==
    MathMin(Rat(95, 100),
            JsAdd(Rat(7, 10), JsMul(JsMul(avgImagesPerPage, Rat(1, 100)), Rat(25, 100))))

\* index.js:511
VectorConfidence(avgVectorsPerPage) ==
    MathMin(Rat(9, 10),
            JsAdd(Rat(7, 10), JsMul(JsMul(avgVectorsPerPage, Rat(1, 10)), Rat(2, 10))))

\* a text branch that leaves confidence at its initial value (index.js:500)
TextConfidenceDefault(avgTextPerPage) == Rat(8, 10)

\* index.js:518
TextConfidence(avgTextPerPage) ==
    MathMin(Rat(9, 10),
            JsAdd(Rat(6, 10), JsMul(JsMul(avgTextPerPage, Rat(1, 100)), Rat(3, 10))))

\* index.js:493-534: the classification and the returned object
Classify(images, vectors, text, largePages, pagesToAnalyze, numPages) ==
    LET avgImagesPerPage == JsDiv(images, pagesToAnalyze)
        avgTextPerPage == JsDiv(text, pagesToAnalyze)
        avgVectorsPerPage == JsDiv(vectors, pagesToAnalyze)
        largeImageRatio == JsDiv(largePages, pagesToAnalyze)
        isScan == IsScan(avgTextPerPage, avgImagesPerPage)
        isVector == IsVector(avgTextPerPage, avgImagesPerPage, avgVectorsPerPage)
    IN [type |-> IF isScan THEN "scan" ELSE IF isVector THEN "vector" ELSE "text",
        confidence |->
            IF isScan THEN ScanConfidence(avgImagesPerPage)
            ELSE IF isVector THEN VectorConfidence(avgVectorsPerPage)
            ELSE TextConfidence(avgTextPerPage),
        stats |->
            [totalPages |-> numPages,
             sampledPages |-> pagesToAnalyze,
             avgImagesPerPage |-> ToFixed2(avgImagesPerPage),
             avgVectorsPerPage |-> ToFixed2(avgVectorsPerPage),
             avgTextItemsPerPage |-> ToFixed2(avgTextPerPage),
             largeImageRatio |-> ToFixed2(largeImageRatio),
             estimatedTotalImages |-> EstimatedTotal(images, pagesToAnalyze, numPages),
             estimatedTotalVectors |-> EstimatedTotal(vectors, pagesToAnalyze, numPages)]]

\* The totals the sampling loop can leave behind after visiting `pages`
\* pages: nothing if no page was visited, otherwise small totals and totals
\* on both sides of every threshold of the classification.
ImageTotals(pages) ==
    IF pages = 0 THEN {0} ELSE (0..MaxSum) \cup {100 * pages, 100 * pages + 1}
VectorTotals(pages) ==
    IF pages = 0 THEN {0} ELSE {0, 1, MaxSum, 10 * pages, 10 * pages + 1}
TextTotals(pages) ==
    IF pages = 0 THEN {0}
    ELSE {0, 30 * pages - 1, 30 * pages, 50 * pages, 100 * pages, 100 * pages + 1}

\* index.js:411-489: the state of analyzePdfType when its loop has ended
AggregateDrawn ==
    /\ kpc = "idle"
    /\ \E n \in 1..MaxDocPages, sp \in 0..MaxSampleArg :
        \E im \in ImageTotals(PagesToAnalyze(sp, n)),
           ve \in VectorTotals(PagesToAnalyze(sp, n)),
           te \in TextTotals(PagesToAnalyze(sp, n)) :
        \E la \in {0, Min(PagesToAnalyze(sp, n), im)} :
            aggregate' = [images |-> im, vectors |-> ve, text |-> te, largePages |-> la,
                          samplePages |-> sp, numPages |-> n]
    /\ kpc' = "called"
    /\ UNCHANGED classified
    /\ UNCHANGED <<countVars, samplerVars, dictVars, runVars>>

\* index.js:493-534
ClassifyApplied ==
    /\ kpc = "called"
    /\ classified' = Classify(aggregate.images, aggregate.vectors, aggregate.text,
                              aggregate.largePages,
                              PagesToAnalyze(aggregate.samplePages, aggregate.numPages),
                              aggregate.numPages)
    /\ kpc' = "done"
    /\ UNCHANGED aggregate
    /\ UNCHANGED <<countVars, samplerVars, dictVars, runVars>>

InitClassify == CountIdle /\ SamplerIdle /\ ClassifyIdle /\ DictIdle /\ RunIdle
NextClassify ==
    \/ AggregateDrawn
    \/ ClassifyApplied
SpecClassify == InitClassify /\ [][NextClassify]_vars

\* index.js:593-602: a page of the full pass of extractPdfSmart, with any
\* resource dictionary (a page without one has no entries of any category)
DictionaryCall ==
    /\ dpc = "idle"
    /\ \E res \in BOOLEAN, xs \in SeqsUpTo(XObjectKinds, MaxEntries), hasX \in BOOLEAN,
          pa \in 0..MaxCategory, sh \in 0..MaxCategory :
        /\ (~hasX => xs = <<>>)
        /\ (~res => (~hasX /\ pa = 0 /\ sh = 0))
        /\ pageDict' = [textItems |-> 0, fnArray |-> <<>>, resources |-> res,
                        hasXObject |-> hasX, xobjects |-> xs, patterns |-> pa,
                        shadings |-> sh]
    /\ dpc' = "called"
    /\ UNCHANGED dictCounts
    /\ UNCHANGED <<countVars, samplerVars, classifyVars, runVars>>

\* index.js:602-635
DictionaryReturn ==
    /\ dpc = "called"
    /\ dictCounts' = DictionaryCounts(pageDict)
    /\ dpc' = "done"
    /\ UNCHANGED pageDict
    /\ UNCHANGED <<countVars, samplerVars, classifyVars, runVars>>

InitDictionary == CountIdle /\ SamplerIdle /\ ClassifyIdle /\ DictIdle /\ RunIdle
NextDictionary ==
    \/ DictionaryCall
    \/ DictionaryReturn
SpecDictionary == InitDictionary /\ [][NextDictionary]_vars

\* ------------------------------------------------- the public operations
\* Each action is the resumption of the call at one await: it takes the
\* parser's answer (fulfilled or rejected) and runs the synchronous code up
\* to the next await, the return or the throw.  setupCanvasPolyfill catches
\* its own errors and writes canvasPolyfillSetup only; global.gc(), where
\* defined, is a hint that writes no variable of the program.
NumPages == Len(doc)

\* the loop bound: index.js:82, 233, 319, 589 (pdf.numPages) and 420
\* (pagesToAnalyze)
LoopLimit ==
    IF fn = "analyzePdfType" THEN PagesToAnalyze(samplePages, NumPages) ELSE NumPages

\* the page of iteration k: pageNum itself, or index.js:421
PageOf(k) ==
    IF fn = "analyzePdfType"
    THEN PageNumAt(k, NumPages, PagesToAnalyze(samplePages, NumPages))
    ELSE k + 1

\* a loop that asks for the text of every page whatever extractText says
WantsTextAlways == TRUE

\* whether the running function asks for the page's text: index.js:86, 425,
\* 593 always, 237 and 323 if extractText
WantsText ==
    fn \in {"extractPdfData", "analyzePdfType", "extractPdfSmart"} \/ extractText

\* whether the running function has an observer to call after a page
CallsBack ==
    hasCallback /\ fn \in {"extractPdfDataStreaming", "extractPdfStats", "extractPdfSmart"}

\* the promise of the public operation rejects with e
Reject(e) == pc' = "rejected" /\ err' = e

\* the loop condition and the getPage request: index.js:82-83, 233-234,
\* 319-320, 420-422, 589-590; on exit the destroy request
LoopHead(k) ==
    /\ idx' = k
    /\ IF k < LoopLimit
       THEN pageNum' = PageOf(k) /\ pc' = "getPage"
       ELSE pageNum' = pageNum /\ pc' = "destroy"

\* loadPdfData and the getDocument request at the top of function f:
\* index.js:56-75, 213-227, 296-313, 393-409, 567-583
Enter(f, source) ==
    /\ fn' = f
    /\ IF loadPdfData(source) = "bytes"
       THEN pc' = "getDocument" /\ err' = err
       ELSE Reject(loadPdfData(source))

\* an 'extracting' event whose progress adds the whole page fraction to 0.1
PageEventProgressUnscaled(counts) ==
    IF fn = "extractPdfSmart"
    THEN [stage |-> "extracting",
          progress |-> JsAdd(Rat(1, 10), JsDiv(pageNum, NumPages)),
          currentPage |-> pageNum,
          totalPages |-> NumPages]
    ELSE [pageNum |-> pageNum,
          totalPages |-> NumPages,
          currentImages |-> counts.imageCount,
          currentVectors |-> counts.vectorCount]

\* an observer argument that reports the running totals, not the page's own
\* counts
PageEventCumulative(counts) ==
    IF fn = "extractPdfSmart"
    THEN [stage |-> "extracting",
          progress |-> JsAdd(Rat(1, 10), JsMul(JsDiv(pageNum, NumPages), Rat(9, 10))),
          currentPage |-> pageNum,
          totalPages |-> NumPages]
    ELSE [pageNum |-> pageNum,
          totalPages |-> NumPages,
          currentImages |-> totalImages + counts.imageCount,
          currentVectors |-> totalVectors + counts.vectorCount]

\* the argument of the observer after a page: index.js:262-267, 354-359,
\* 640-645
PageEvent(counts) ==
    IF fn = "extractPdfSmart"
    THEN [stage |-> "extracting",
          progress |-> JsAdd(Rat(1, 10), JsMul(JsDiv(pageNum, NumPages), Rat(9, 10))),
          currentPage |-> pageNum,
          totalPages |-> NumPages]
    ELSE [pageNum |-> pageNum,
          totalPages |-> NumPages,
          currentImages |-> counts.imageCount,
          currentVectors |-> counts.vectorCount]

\* an end of iteration that catches what the observer throws and goes on
PageDoneSwallows(counts, throws) ==
    /\ held' = held \ {pageNum}
    /\ events' = IF CallsBack THEN Append(events, PageEvent(counts)) ELSE events
    /\ thrown' = IF CallsBack /\ throws THEN Len(events) + 1 ELSE thrown
    /\ LoopHead(idx + 1)
    /\ err' = err

\* the end of a loop iteration: page.cleanup(), the observer, the next
\* iteration: index.js:113, 258-269, 351-366, 483-489, 637-652
PageDone(counts, throws) ==
    /\ held' = held \ {pageNum}
    /\ events' = IF CallsBack THEN Append(events, PageEvent(counts)) ELSE events
    /\ thrown' = IF CallsBack /\ throws THEN Len(events) + 1 ELSE thrown
    /\ IF CallsBack /\ throws
       THEN Reject("callback") /\ UNCHANGED loopVars
       ELSE LoopHead(idx + 1) /\ err' = err

\* the call of an exported function, up to its first parser request:
\* index.js:51-59, 208-215, 291-298, 388-395, 545-554
RunCall ==
    /\ pc = "idle"
    /\ \E a \in Apis, s \in SourceKinds, d \in Documents,
          sp \in (0..MaxSample) \cup {DefaultSamplePages},
          et \in BOOLEAN, cb \in BOOLEAN, throws \in BOOLEAN, g \in BOOLEAN,
          imported \in BOOLEAN :
        /\ (a # "analyzePdfType" => sp = 0)
        /\ (a \notin {"extractPdfDataStreaming", "extractPdfStats"} => et)
        /\ (a \in {"extractPdfData", "analyzePdfType"} => ~cb)
        /\ (throws => (a = "extractPdfSmart" /\ cb))
        /\ api' = a
        /\ pdfSource' = s
        /\ doc' = d
        /\ samplePages' = IF a = "extractPdfSmart" THEN SmartSamplePages ELSE sp
        /\ extractText' = et
        /\ hasCallback' = cb
        /\ gc' = g
        /\ canvasPolyfillSetup' = imported
        /\ earlier' = earlier
        /\ IF a = "extractPdfSmart"
           THEN /\ events' = IF cb THEN <<[stage |-> "analyzing", progress |-> Rat(0, 1)]>>
                                   ELSE <<>>
                /\ thrown' = IF throws THEN 1 ELSE 0
                /\ IF throws
                   THEN fn' = a /\ Reject("callback")
                   ELSE Enter("analyzePdfType", s)
           ELSE /\ events' = <<>>
                /\ thrown' = 0
                /\ Enter(a, s)
    /\ UNCHANGED <<loopVars, totalVars, held, opsLive, calls, analysis, result>>
    /\ UNCHANGED <<countVars, samplerVars, classifyVars, dictVars>>

\* counters that are not set back when a document is loaded
KeepTotals == UNCHANGED totalVars

\* the counters declared after the document is loaded: index.js:78-80,
\* 229-231, 315-317, 411-414, 585-587
ResetTotals ==
    /\ totalImages' = 0
    /\ totalVectors' = 0
    /\ totalText' = 0
    /\ pagesWithLargeImages' = 0
    /\ textChunks' = <<>>

\* `await loadingTask.promise` settles: index.js:75-82, 227-233, 313-319,
\* 409-420, 583-589
DocumentLoaded ==
    /\ pc = "getDocument"
    /\ \E ok \in BOOLEAN :
        /\ calls' = Append(calls, [req |-> "getDocument", page |-> 0, ok |-> ok])
        /\ IF ok
           THEN /\ ResetTotals
                /\ LoopHead(0)
                /\ err' = err
           ELSE /\ Reject("getDocument")
                /\ UNCHANGED <<loopVars, totalVars>>
    /\ UNCHANGED <<callVars, fn, held, opsLive, events, thrown, analysis, result>>
    /\ UNCHANGED <<countVars, samplerVars, classifyVars, dictVars>>

\* `await pdf.getPage(pageNum)` settles: index.js:83-86, 234-247, 320-334,
\* 422-425, 590-593
PageLoaded ==
    /\ pc = "getPage"
    /\ \E ok \in BOOLEAN :
        /\ calls' = Append(calls, [req |-> "getPage", page |-> pageNum, ok |-> ok])
        /\ IF ok
           THEN /\ held' = held \cup {pageNum}
                /\ pc' = IF WantsText THEN "getTextContent" ELSE "getOperatorList"
                /\ err' = err
           ELSE /\ Reject("getPage")
                /\ held' = held
    /\ UNCHANGED <<callVars, fn, loopVars, totalVars, opsLive, events, thrown, analysis,
                   result>>
    /\ UNCHANGED <<countVars, samplerVars, classifyVars, dictVars>>

\* `await page.getTextContent(..)` settles: index.js:86-98, 238-247,
\* 324-334, 425-435, 593-652
TextContentLoaded ==
    /\ pc = "getTextContent"
    /\ \E ok \in BOOLEAN, throws \in BOOLEAN :
        /\ calls' = Append(calls, [req |-> "getTextContent", page |-> pageNum, ok |-> ok])
        /\ IF ~ok
           THEN /\ Reject("getTextContent")
                /\ UNCHANGED <<loopVars, totalVars, held, events, thrown>>
           ELSE /\ IF fn = "analyzePdfType"
                   THEN /\ totalText' = totalText + doc[pageNum].textItems
                        /\ textChunks' = textChunks
                   ELSE /\ totalText' = totalText
                        /\ textChunks' =
                             IF fn = "extractPdfDataStreaming"
                             THEN Append(textChunks, doc[pageNum].pageText)
                             ELSE AppendPageText(textChunks, doc[pageNum].pageText)
                /\ pagesWithLargeImages' = pagesWithLargeImages
                /\ IF fn = "extractPdfSmart"
                   THEN LET counts == DictionaryCounts(doc[pageNum])
                        IN /\ totalImages' = totalImages + counts.imageCount
                           /\ totalVectors' = totalVectors + counts.vectorCount
                           /\ PageDone(counts, throws)
                   ELSE /\ pc' = "getOperatorList"
                        /\ err' = err
                        /\ UNCHANGED <<loopVars, totalImages, totalVectors, held, events,
                                       thrown>>
    /\ UNCHANGED <<callVars, fn, opsLive, analysis, result>>
    /\ UNCHANGED <<countVars, samplerVars, classifyVars, dictVars>>

\* a getOperatorList rejection that is not caught anywhere
OperatorListFailedRejects ==
    /\ Reject("getOperatorList")
    /\ UNCHANGED <<loopVars, totalVars, held, events, thrown>>

\* the getOperatorList rejection inside analyzePdfType is caught and the
\* loop goes on: index.js:434, 479-489.  Elsewhere it rejects the call.
OperatorListFailed ==
    IF fn = "analyzePdfType"
    THEN /\ PageDone([imageCount |-> 0, vectorCount |-> 0], FALSE)
         /\ UNCHANGED totalVars
    ELSE /\ Reject("getOperatorList")
         /\ UNCHANGED <<loopVars, totalVars, held, events, thrown>>

\* `const ops = await page.getOperatorList(..)`: the list of the page is in
\* memory from here on: index.js:98, 247, 334, 435
MaterializeOps == opsLive' = opsLive \cup {pageNum}

\* an iteration that never nulls the arrays of its operator list
ReleaseOpsKeeps == opsLive' = opsLive

\* `ops.fnArray = null; ops.argsArray = null`: index.js:108-109, 254-255,
\* 345-348, 475-478
ReleaseOps == opsLive' = opsLive \ {pageNum}

\* `await page.getOperatorList(..)` settles: index.js:98, 247, 334, 435 and,
\* when it rejects, 479-489
OperatorListLoaded ==
    /\ pc = "getOperatorList"
    /\ \E ok \in BOOLEAN :
        /\ calls' = Append(calls, [req |-> "getOperatorList", page |-> pageNum, ok |-> ok])
        /\ IF ~ok
           THEN /\ OperatorListFailed
                /\ opsLive' = opsLive
           ELSE /\ MaterializeOps
                /\ pc' = "counting"
                /\ UNCHANGED <<loopVars, totalVars, held, events, thrown, err>>
    /\ UNCHANGED <<callVars, fn, analysis, result>>
    /\ UNCHANGED <<countVars, samplerVars, classifyVars, dictVars>>

\* the synchronous rest of the iteration once the operator list is there:
\* index.js:103-114, 251-269, 341-366, 441-489
PageCounted ==
    /\ pc = "counting"
    /\ \E throws \in BOOLEAN :
        LET counts == countGraphicsObjects(doc[pageNum].fnArray)
        IN /\ totalImages' = totalImages + counts.imageCount
           /\ totalVectors' = totalVectors + counts.vectorCount
           /\ pagesWithLargeImages' =
                IF fn = "analyzePdfType"
                THEN pagesWithLargeImages + LargeImageFlag(doc[pageNum], counts)
                ELSE pagesWithLargeImages
           /\ UNCHANGED <<totalText, textChunks>>
           /\ ReleaseOps
           /\ PageDone(counts, throws)
    /\ UNCHANGED <<callVars, fn, calls, analysis, result>>
    /\ UNCHANGED <<countVars, samplerVars, classifyVars, dictVars>>

\* the value an extraction function returns: index.js:119-123, 273-277,
\* 370-375, 656-663
ExtractResult ==
    [text |-> IF fn = "extractPdfDataStreaming"
              THEN (IF extractText THEN Trim(JoinLines(textChunks)) ELSE <<>>)
              ELSE Trim(textChunks),
     imageCount |-> totalImages,
     vectorCount |-> totalVectors,
     pages |-> IF fn = "extractPdfStats" \/ fn = "extractPdfSmart" THEN NumPages ELSE 0,
     pdfType |-> IF fn = "extractPdfSmart" THEN analysis.type ELSE "",
     confidence |-> IF fn = "extractPdfSmart" THEN analysis.confidence ELSE NaN]

\* a function that never destroys its document
DestroyDocumentSkipped == calls

\* `await pdf.destroy()`: index.js:117, 271, 368, 491, 654
DestroyDocument == Append(calls, [req |-> "destroy", page |-> 0, ok |-> TRUE])

\* `await pdf.destroy()` settles: index.js:117-123, 271-277, 368-375,
\* 491-534 and, back in extractPdfSmart, 554-583, 654-663
Destroyed ==
    /\ pc = "destroy"
    /\ calls' = DestroyDocument
    /\ IF fn = "analyzePdfType"
       THEN LET a == Classify(totalImages, totalVectors, totalText, pagesWithLargeImages,
                              PagesToAnalyze(samplePages, NumPages), NumPages)
            IN IF api = "analyzePdfType"
               THEN /\ result' = a
                    /\ pc' = "returned"
                    /\ UNCHANGED <<fn, analysis, events, thrown, err>>
               ELSE /\ analysis' = a
                    /\ result' = result
                    /\ events' =
                         IF hasCallback
                         THEN Append(events, [stage |-> "analyzed", progress |-> Rat(1, 10),
                                              pdfType |-> a.type, confidence |-> a.confidence])
                         ELSE events
                    /\ \E throws \in BOOLEAN :
                         IF hasCallback /\ throws
                         THEN /\ thrown' = Len(events) + 1
                              /\ fn' = "extractPdfSmart"
                              /\ Reject("callback")
                         ELSE /\ thrown' = thrown
                              /\ Enter("extractPdfSmart", pdfSource)
       ELSE /\ result' = ExtractResult
            /\ pc' = "returned"
            /\ UNCHANGED <<fn, analysis, events, thrown, err>>
    /\ UNCHANGED <<callVars, loopVars, totalVars, held, opsLive>>
    /\ UNCHANGED <<countVars, samplerVars, classifyVars, dictVars>>

Init == CountIdle /\ SamplerIdle /\ ClassifyIdle /\ DictIdle /\ RunIdle
Next ==
    \/ RunCall
    \/ DocumentLoaded
    \/ PageLoaded
    \/ TextContentLoaded
    \/ OperatorListLoaded
    \/ PageCounted
    \/ Destroyed
Spec == Init /\ [][Next]_vars

\* ------------------------------------------- two calls of analyzePdfType
\* index.js:388: a first call of analyzePdfType, with a Buffer, in a process
\* without global.gc whose polyfill import fails
AnalyzeCall ==
    /\ RunCall
    /\ api' = "analyzePdfType"
    /\ pdfSource' = "Buffer"
    /\ ~gc'
    /\ ~canvasPolyfillSetup'

\* index.js:388-395: analyzePdfType is called once more, with the arguments of
\* the call that has returned; global.gc may have come or gone, and the
\* import of the canvas polyfill is tried again if it failed before
RunAgain ==
    /\ pc = "returned"
    /\ api = "analyzePdfType"
    /\ earlier = <<>>
    /\ earlier' = <<[calls |-> calls, result |-> result, gc |-> gc]>>
    /\ \E g \in BOOLEAN, imported \in BOOLEAN :
        /\ gc' = g
        /\ canvasPolyfillSetup' = (canvasPolyfillSetup \/ imported)
    /\ calls' = <<>>
    /\ result' = "none"
    /\ Enter("analyzePdfType", pdfSource)
    /\ UNCHANGED <<api, pdfSource, samplePages, extractText, hasCallback, doc>>
    /\ UNCHANGED <<loopVars, totalVars, held, opsLive, events, thrown, analysis>>
    /\ UNCHANGED <<countVars, samplerVars, classifyVars, dictVars>>

InitTwice == CountIdle /\ SamplerIdle /\ ClassifyIdle /\ DictIdle /\ RunIdle
NextTwice ==
    \/ AnalyzeCall
    \/ DocumentLoaded
    \/ PageLoaded
    \/ TextContentLoaded
    \/ OperatorListLoaded
    \/ PageCounted
    \/ Destroyed
    \/ RunAgain
SpecTwice == InitTwice /\ [][NextTwice]_vars

\* ------------------------------------------------------------ properties
\* the opcode about to be consumed by the next loop iteration
AtOp(S) == cpc = "scan" /\ i < Len(fnArray) /\ fnArray[i + 1] \in S

AllIn(ops, from, to, S) == \A k \in from..to : ops[k] \in S

NumIn(ops, to, S) == Cardinality({k \in 1..to : ops[k] \in S})

\* C3: every constructPath leaves inVectorSequence false once processed, and
\* a constructPath followed directly by a terminator or by end of stream
\* yields vectorCount = 1, not 2.
C3_ConstructPathCountedOnce ==
    /\ (cpc = "scan" /\ i >= 1 /\ fnArray[i] = "constructPath") => ~inVectorSequence
    /\ (cpc = "done" /\ fnArray \in ({<<"constructPath">>}
                           \cup {<<"constructPath", t>> : t \in TERMINATOR_OPS}))
          => vectorCount = 1

\* C7: a terminator adds 1 to vectorCount and clears the flag exactly when a
\* sequence is open, and otherwise changes nothing; one or more path-segment
\* opcodes followed by a single terminator give vectorCount = 1, imageCount = 0.
C7_TerminatorClosesOpenSequence ==
    /\ [][AtOp(TERMINATOR_OPS) =>
            IF inVectorSequence
            THEN /\ vectorCount' = vectorCount + 1
                 /\ inVectorSequence' = FALSE
                 /\ imageCount' = imageCount
            ELSE UNCHANGED <<imageCount, vectorCount, inVectorSequence>>]_vars
    /\ [](( /\ cpc = "done"
            /\ Len(fnArray) >= 2
            /\ AllIn(fnArray, 1, Len(fnArray) - 1, PATH_SEGMENT_OPS)
            /\ fnArray[Len(fnArray)] \in TERMINATOR_OPS )
           => (vectorCount = 1 /\ imageCount = 0))

C7_Witness ==
    /\ cpc = "done"
    /\ fnArray = <<"moveTo", "lineTo", "stroke">>
    /\ vectorCount = 1
    /\ imageCount = 0

\* C8: an image opcode adds exactly 1 to imageCount, leaves vectorCount alone
\* and clears the flag; an open path-segment sequence cut by an image is not
\* counted; imageCount is the number of image opcodes consumed.
C8_ImageCountsOnceAndResets ==
    /\ [][AtOp(IMAGE_OPS) =>
            /\ imageCount' = imageCount + 1
            /\ vectorCount' = vectorCount
            /\ inVectorSequence' = FALSE]_vars
    /\ [](cpc \in {"scan", "done"} => imageCount = NumIn(fnArray, i, IMAGE_OPS))
    /\ [](( /\ cpc = "done"
            /\ Len(fnArray) >= 2
            /\ AllIn(fnArray, 1, Len(fnArray) - 1, PATH_SEGMENT_OPS)
            /\ fnArray[Len(fnArray)] \in IMAGE_OPS )
           => (vectorCount = 0 /\ imageCount = 1))

C8_Witness ==
    /\ cpc = "done"
    /\ fnArray = <<"moveTo", "lineTo", "paintImageXObject">>
    /\ imageCount = 1
    /\ vectorCount = 0

\* C9: at end of stream vectorCount grows by exactly 1 if the flag is still
\* true and by nothing otherwise; an opcode outside the four classes changes
\* neither counter nor the flag; a stream that ends in a dangling run of
\* path-segment opcodes is counted as one shape.
C9_EndOfStreamRule ==
    /\ [][(cpc = "scan" /\ cpc' = "done") =>
            /\ vectorCount' = vectorCount + (IF inVectorSequence THEN 1 ELSE 0)
            /\ imageCount' = imageCount]_vars
    /\ [][AtOp(OPS \ (IMAGE_OPS \cup VECTOR_OPS)) =>
            UNCHANGED <<imageCount, vectorCount, inVectorSequence>>]_vars
    /\ [](( /\ cpc = "done"
            /\ Len(fnArray) >= 1
            /\ AllIn(fnArray, 1, Len(fnArray), PATH_SEGMENT_OPS \cup OTHER_OPS)
            /\ fnArray[Len(fnArray)] \in PATH_SEGMENT_OPS )
           => vectorCount = 1)

C9_Witness ==
    /\ cpc = "done"
    /\ fnArray = <<"save", "moveTo", "lineTo">>
    /\ inVectorSequence
    /\ vectorCount = 1

\* C10: for numPages >= 1 and samplePages >= 1 the loop visits exactly
\* min(samplePages, numPages) pages, each in 1..numPages, the first being
\* page 1, the k-th being min(1 + (k-1)*step, numPages) with
\* step = max(1, floor(numPages / min(samplePages, numPages))).
C10_SampleIndices ==
    spc = "done" =>
        /\ Len(sVisited) = Min(sSamplePages, sNumPages)
        /\ \A k \in 1..Len(sVisited) :
              /\ sVisited[k] \in 1..sNumPages
              /\ sVisited[k] =
                   Min(1 + (k - 1) * Max(1, sNumPages \div Min(sSamplePages, sNumPages)),
                       sNumPages)
        /\ sVisited[1] = 1

C10_Witness ==
    /\ spc = "done"
    /\ sNumPages = 11
    /\ sSamplePages = 5
    /\ sVisited = <<1, 3, 5, 7, 9>>

\* ---------------------------------------- properties of the operations
Settled == pc \in {"returned", "rejected"}

CallsOf(req, ok) == {k \in 1..Len(calls) : calls[k].req = req /\ calls[k].ok = ok}

\* the requests whose failure the operations are said to surface
SurfacedRequests == {"getDocument", "getPage", "getOperatorList"}

\* every failed request of the given kinds rejected the call with that
\* error and was the last request made
FailureRejects(reqs) ==
    \A k \in 1..Len(calls) :
        (~calls[k].ok /\ calls[k].req \in reqs) =>
            (pc = "rejected" /\ err = calls[k].req /\ k = Len(calls))

\* C1: a pdfSource of each documented kind (file-path string, Buffer, plain
\* Uint8Array) gets past loadPdfData: the call never fails with the
\* 'Invalid source' error.
C1_DocumentedSourcesAccepted ==
    (api # "none" /\ pdfSource \in {"string", "Buffer", "Uint8Array"})
        => err # "Invalid source"

\* C2: once a document has been loaded, pdf.destroy() has been invoked
\* exactly once for it by the time the operation settles, on success and on
\* failure alike.
C2_DestroyedOnEveryExit ==
    Settled => Cardinality(CallsOf("destroy", TRUE)) = Cardinality(CallsOf("getDocument", TRUE))

\* C4: every result analyzePdfType returns has a confidence in [0,1] and
\* sampledPages <= totalPages.
C4_ConfidenceInUnitInterval ==
    (api = "analyzePdfType" /\ pc = "returned") =>
        /\ ~result.confidence.nan
        /\ JsLe(Rat(0, 1), result.confidence)
        /\ JsLe(result.confidence, Rat(1, 1))
        /\ result.stats.sampledPages <= result.stats.totalPages

\* C5 as stated: in extractPdfData, extractPdfDataStreaming, extractPdfStats
\* and analyzePdfType a failure of document load, getPage or getOperatorList
\* rejects the operation with that error and no later page is visited.
C5_FailuresSurface ==
    api \in {"extractPdfData", "extractPdfDataStreaming", "extractPdfStats",
             "analyzePdfType"}
        => FailureRejects(SurfacedRequests)

\* the images and vectors of the pages whose operator list was delivered
\* (a page visited twice is counted twice)
RECURSIVE DeliveredCounts(_)
DeliveredCounts(k) ==
    IF k = 0 THEN [imageCount |-> 0, vectorCount |-> 0]
    ELSE LET rest == DeliveredCounts(k - 1)
             c == countGraphicsObjects(doc[calls[k].page].fnArray)
         IN IF calls[k].req = "getOperatorList" /\ calls[k].ok
            THEN [imageCount |-> rest.imageCount + c.imageCount,
                  vectorCount |-> rest.vectorCount + c.vectorCount]
            ELSE rest

\* C5 as amended: the three extraction operations reject on a failure of
\* document load, getPage or getOperatorList and visit no later page;
\* analyzePdfType does so for document load, getPage and getTextContent,
\* but a getOperatorList failure inside it is caught: the call does not
\* reject at that point, the page adds nothing to the image and vector
\* totals, and the loop goes on to the next sampled page or to destroy.
C5_FailuresSurfaceExceptAnalysisOperatorList ==
    /\ [](api \in {"extractPdfData", "extractPdfDataStreaming", "extractPdfStats"}
            => FailureRejects(SurfacedRequests))
    /\ [](api = "analyzePdfType"
            => FailureRejects({"getDocument", "getPage", "getTextContent"}))
    /\ []((api = "analyzePdfType" /\ pc \in {"getPage", "destroy", "returned"})
            => /\ totalImages = DeliveredCounts(Len(calls)).imageCount
               /\ totalVectors = DeliveredCounts(Len(calls)).vectorCount)
    /\ [][( /\ api = "analyzePdfType"
            /\ pc = "getOperatorList"
            /\ Len(calls') = Len(calls) + 1
            /\ ~calls'[Len(calls')].ok )
            => /\ pc' = (IF idx + 1 < LoopLimit THEN "getPage" ELSE "destroy")
               /\ idx' = idx + 1
               /\ err' = err]_vars

C5_Witness ==
    /\ api = "analyzePdfType"
    /\ pc = "returned"
    /\ Len(doc) = 2
    /\ CallsOf("getOperatorList", FALSE) = {4}
    /\ CallsOf("getPage", TRUE) = {2, 5}

\* C6: neither extractPdfStats nor analyzePdfType ever requests a page's
\* operator list.
C6_NoOperatorListRequested ==
    api \in {"extractPdfStats", "analyzePdfType"}
        => \A k \in 1..Len(calls) : calls[k].req # "getOperatorList"

\* C11: for numPages >= 1 and samplePages >= 1, whichever is larger, the
\* pages visited by the sampling loop are strictly increasing: no page is
\* sampled twice and the clamp to numPages never repeats the last page.
C11_SampleStrictlyIncreasing ==
    spc \in {"loop", "done"} =>
        \A k \in 1..(Len(sVisited) - 1) : sVisited[k] < sVisited[k + 1]

C11_Witness ==
    /\ spc = "done"
    /\ sNumPages = 5
    /\ sSamplePages = 4
    /\ sVisited = <<1, 2, 3, 4>>

\* the number of pages the sampling loop visited for the drawn aggregate
AggPages == Min(aggregate.samplePages, aggregate.numPages)

\* C12: with at least one page visited the type is decided by first match:
\* scan iff avgText < 30 and 0 < avgImages <= 100; otherwise vector iff
\* avgText < 30, avgImages = 0 and avgVectors > 0; otherwise text.  So
\* avgText >= 30 and avgImages > 100 both give text, and the number of pages
\* with large images plays no part.
C12_TypeByFirstMatch ==
    (kpc = "done" /\ AggPages >= 1) =>
        LET lowText == aggregate.text < 30 * AggPages
            scan == lowText /\ 0 < aggregate.images /\ aggregate.images <= 100 * AggPages
            vector == lowText /\ aggregate.images = 0 /\ aggregate.vectors > 0
        IN /\ classified.type =
                IF scan THEN "scan" ELSE IF vector THEN "vector" ELSE "text"
           /\ (aggregate.text >= 30 * AggPages => classified.type = "text")
           /\ (aggregate.images > 100 * AggPages => classified.type = "text")

C12_Witness ==
    /\ kpc = "done"
    /\ AggPages = 2
    /\ aggregate.text = 0
    /\ aggregate.images = 201
    /\ aggregate.largePages = 2
    /\ classified.type = "text"

\* C13: with at least one page visited the confidence is
\* min(0.95, 0.7 + (avgImages/100)*0.25) for scan,
\* min(0.9, 0.7 + (avgVectors/10)*0.2) for vector and
\* min(0.9, 0.6 + (avgText/100)*0.3) for text, so it lies in [0.7, 0.95],
\* [0.7, 0.9] and [0.6, 0.9]; the initial 0.8 is returned only where the
\* formula gives it.
C13_ConfidenceFormulas ==
    (kpc = "done" /\ AggPages >= 1) =>
        LET p == AggPages
            c == classified.confidence
            scan == IF 280 * p + aggregate.images <= 380 * p
                    THEN Rat(280 * p + aggregate.images, 400 * p) ELSE Rat(95, 100)
            vector == IF 35 * p + aggregate.vectors <= 45 * p
                      THEN Rat(35 * p + aggregate.vectors, 50 * p) ELSE Rat(9, 10)
            text == IF 600 * p + 3 * aggregate.text <= 900 * p
                    THEN Rat(600 * p + 3 * aggregate.text, 1000 * p) ELSE Rat(9, 10)
        IN /\ classified.type = "scan" =>
                JsEq(c, scan) /\ JsLe(Rat(7, 10), c) /\ JsLe(c, Rat(95, 100))
           /\ classified.type = "vector" =>
                JsEq(c, vector) /\ JsLe(Rat(7, 10), c) /\ JsLe(c, Rat(9, 10))
           /\ classified.type = "text" =>
                JsEq(c, text) /\ JsLe(Rat(6, 10), c) /\ JsLe(c, Rat(9, 10))

C13_Witness ==
    /\ kpc = "done"
    /\ AggPages = 3
    /\ aggregate.text = 0
    /\ aggregate.images = 0
    /\ aggregate.vectors = 0
    /\ classified.type = "text"
    /\ JsEq(classified.confidence, Rat(6, 10))

\* the getPage requests that have settled, in order
RECURSIVE PagesFetched(_)
PagesFetched(k) ==
    IF k = 0 THEN <<>>
    ELSE IF calls[k].req = "getPage"
         THEN Append(PagesFetched(k - 1), calls[k].page)
         ELSE PagesFetched(k - 1)

\* C14: in extractPdfDataStreaming and extractPdfStats with an
\* onPageProcessed callback on an N-page document, pages are fetched in the
\* order 1, 2, .., N; a run that returns has invoked the callback exactly N
\* times, the k-th time with pageNum = k, totalPages = N and the image and
\* vector counts of page k alone; the invocation for page k comes after the
\* operator list of page k was delivered and released and the page cleaned
\* up, and before page k+1 is requested.
C14_PageEventsInOrder ==
    (api \in {"extractPdfDataStreaming", "extractPdfStats"} /\ hasCallback) =>
        LET fetched == PagesFetched(Len(calls))
        IN /\ \A k \in 1..Len(fetched) : fetched[k] = k
           /\ Len(fetched) <= NumPages
           /\ \A k \in 1..Len(events) :
                /\ events[k].pageNum = k
                /\ events[k].totalPages = NumPages
                /\ events[k].currentImages =
                        countGraphicsObjects(doc[k].fnArray).imageCount
                /\ events[k].currentVectors =
                        countGraphicsObjects(doc[k].fnArray).vectorCount
                /\ k \notin held
                /\ k \notin opsLive
           /\ Len(events) <= Cardinality(CallsOf("getOperatorList", TRUE))
           /\ Len(fetched) <= Len(events) + 1
           /\ (pc = "getPage" => pageNum = Len(events) + 1)
           /\ (pc = "returned" => Len(events) = NumPages)

C14_Witness ==
    /\ api = "extractPdfStats"
    /\ hasCallback
    /\ pc = "returned"
    /\ doc = <<ScanPage, ScanPage, VectorPage>>
    /\ Len(events) = 3
    /\ events[2].currentImages = 1
    /\ events[3].currentImages = 0
    /\ events[3].currentVectors = 2

C16_CallbackFailurePropagates ==
    /\ [](thrown # 0 => /\ pc = "rejected"
                        /\ err = "callback"
                        /\ thrown = Len(events))
    /\ [][thrown # 0 => UNCHANGED <<calls, events, pc>>]_vars

C16_Witness ==
    /\ api = "extractPdfDataStreaming"
    /\ Len(doc) = 3
    /\ thrown = 2
    /\ pc = "rejected"
    /\ PagesFetched(Len(calls)) = <<1, 2>>
    /\ Len(events) = 2

\* what the resource dictionary of a page declares: image XObjects, and form
\* XObjects plus patterns plus shadings
DeclaredImages(page) ==
    IF page.resources /\ page.hasXObject
    THEN Cardinality({k \in 1..Len(page.xobjects) :
                        page.xobjects[k] \in {"LargeImage", "SmallImage"}})
    ELSE 0

DeclaredVectors(page) ==
    IF page.resources
    THEN (IF page.hasXObject
          THEN Cardinality({k \in 1..Len(page.xobjects) : page.xobjects[k] = "Form"})
          ELSE 0) + page.patterns + page.shadings
    ELSE 0

RECURSIVE DeclaredTotal(_, _)
DeclaredTotal(k, images) ==
    IF k = 0 THEN 0
    ELSE DeclaredTotal(k - 1, images)
            + (IF images THEN DeclaredImages(doc[k]) ELSE DeclaredVectors(doc[k]))

\* the positions in calls of the getDocument requests
DocumentLoads == {k \in 1..Len(calls) : calls[k].req = "getDocument"}

C18_InvalidSourceRejects ==
    (api # "none" /\ pdfSource = "number") =>
        /\ pc = "rejected"
        /\ err = "Invalid source"
        /\ calls = <<>>
        /\ held = {}
        /\ \A k \in 1..Len(events) : events[k].stage = "analyzing"

\* C18 as amended: with a pdfSource of an unsupported kind every operation
\* rejects before any document is loaded: no request reaches the parser, no
\* page is fetched and no per-page event is emitted.  The error is 'Invalid
\* source', except in extractPdfSmart, which emits its 'analyzing' progress
\* event before it looks at the source: if onProgress throws at that event
\* the operation rejects with what the callback threw.
C18_InvalidSourceRejectsUnlessObserverThrows ==
    (api # "none" /\ pdfSource = "number") =>
        /\ pc = "rejected"
        /\ calls = <<>>
        /\ held = {}
        /\ IF api = "extractPdfSmart" /\ hasCallback
           THEN Len(events) = 1 /\ events[1].stage = "analyzing"
           ELSE events = <<>>
        /\ IF thrown = 0
           THEN err = "Invalid source"
           ELSE api = "extractPdfSmart" /\ thrown = 1 /\ err = "callback"

C18_Witness ==
    /\ api = "extractPdfSmart"
    /\ pdfSource = "number"
    /\ hasCallback
    /\ thrown = 0
    /\ pc = "rejected"
    /\ err = "Invalid source"
    /\ Len(events) = 1

\* round(total * numPages / pages) in exact arithmetic, halves rounded up
ExactEstimate(total) ==
    (2 * total * aggregate.numPages + AggPages) \div (2 * AggPages)

\* total * numPages / pages is an integer plus one half
HalfwayEstimate(total) ==
    /\ (2 * total * aggregate.numPages) % AggPages = 0
    /\ ((2 * total * aggregate.numPages) \div AggPages) % 2 = 1

\* C19 as stated: for totalPages >= 1 and samplePages >= 1 the result has
\* stats.totalPages = totalPages, stats.sampledPages = min(samplePages,
\* totalPages), and both estimates equal round(sampleSum * totalPages /
\* sampledPages).
C19_EstimatesAreExactRounding ==
    (kpc = "done" /\ AggPages >= 1) =>
        /\ classified.stats.totalPages = aggregate.numPages
        /\ classified.stats.sampledPages = Min(aggregate.samplePages, aggregate.numPages)
        /\ classified.stats.estimatedTotalImages = Rat(ExactEstimate(aggregate.images), 1)
        /\ classified.stats.estimatedTotalVectors = Rat(ExactEstimate(aggregate.vectors), 1)

\* the estimate returned for a total: the exact rounding, or one less where
\* the exact value lies halfway between two integers
EstimateWithinOne(estimate, total) ==
    /\ ~estimate.nan
    /\ estimate.den = 1
    /\ estimate.num \in {ExactEstimate(total), ExactEstimate(total) - 1}
    /\ (~HalfwayEstimate(total) => estimate.num = ExactEstimate(total))
    /\ (AggPages = aggregate.numPages => estimate.num = total)

\* C19 as amended: stats.totalPages = totalPages and stats.sampledPages =
\* min(samplePages, totalPages); each estimate is Math.round of the double
\* product (sampleSum / sampledPages) * totalPages, which is
\* round(sampleSum * totalPages / sampledPages) whenever that value is not
\* halfway between two integers and may be one less when it is; with every
\* page sampled the estimates are the exact sums; 10 pages of 50 text items
\* and nothing else, sampled at 5, give sampledPages 5, avgTextItemsPerPage
\* 50 and type text.
C19_EstimatesRoundTheDoubleProduct ==
    (kpc = "done" /\ AggPages >= 1) =>
        /\ classified.stats.totalPages = aggregate.numPages
        /\ classified.stats.sampledPages = Min(aggregate.samplePages, aggregate.numPages)
        /\ EstimateWithinOne(classified.stats.estimatedTotalImages, aggregate.images)
        /\ EstimateWithinOne(classified.stats.estimatedTotalVectors, aggregate.vectors)
        /\ ( /\ aggregate.numPages = 10
             /\ aggregate.samplePages = 5
             /\ aggregate.text = 250
             /\ aggregate.images = 0
             /\ aggregate.vectors = 0 )
            => /\ classified.stats.sampledPages = 5
               /\ JsEq(classified.stats.avgTextItemsPerPage, Rat(50, 1))
               /\ classified.type = "text"

C19_Witness ==
    /\ kpc = "done"
    /\ aggregate.numPages = 27
    /\ aggregate.samplePages = 6
    /\ aggregate.images = 13
    /\ HalfwayEstimate(aggregate.images)
    /\ ExactEstimate(aggregate.images) = 59
    /\ classified.stats.estimatedTotalImages = Rat(58, 1)

\* C20: two calls of analyzePdfType on the same document with the same
\* samplePages, to which the parser gives the same answers, return the same
\* type, confidence and stats, whether or not global.gc is defined in either
\* and whatever the earlier call left behind.
C20_SecondCallReturnsTheSame ==
    (api = "analyzePdfType" /\ pc = "returned" /\ earlier # <<>>) =>
        (calls = earlier[1].calls => result = earlier[1].result)

C20_Witness ==
    /\ api = "analyzePdfType"
    /\ pc = "returned"
    /\ earlier # <<>>
    /\ calls = earlier[1].calls
    /\ gc
    /\ ~earlier[1].gc
    /\ canvasPolyfillSetup
    /\ doc = <<ScanPage, VectorPage, TextPage>>
    /\ samplePages = 2
    /\ CallsOf("getOperatorList", TRUE) # {}
    /\ result.type = "scan"

FlagExpected(page) ==
    /\ \E k \in 1..Len(page.fnArray) : page.fnArray[k] \in IMAGE_OPS
    /\ IF page.resources /\ page.hasXObject
       THEN \E k \in 1..Len(page.xobjects) : page.xobjects[k] = "LargeImage"
       ELSE TRUE

\* C22: in analyzePdfType a sampled page raises pagesWithLargeImages at most
\* once, and only if its operator list counted an image and either an image
\* XObject larger than 1000 x 1000 is declared or no XObject dictionary is
\* available; so pagesWithLargeImages <= sampledPages and largeImageRatio
\* lies in [0,1].
C22_LargeImagePagesFlaggedOnce ==
    (api = "analyzePdfType" /\ pc = "returned") =>
        /\ pagesWithLargeImages =
              Cardinality({k \in CallsOf("getOperatorList", TRUE) :
                              FlagExpected(doc[calls[k].page])})
        /\ pagesWithLargeImages <= result.stats.sampledPages
        /\ JsLe(Rat(0, 1), result.stats.largeImageRatio)
        /\ JsLe(result.stats.largeImageRatio, Rat(1, 1))

\* the sum over pages 1..k of what countGraphicsObjects finds in the page's
\* operator list
RECURSIVE OperatorListTotal(_, _)
OperatorListTotal(k, images) ==
    IF k = 0 THEN 0
    ELSE OperatorListTotal(k - 1, images)
            + (IF images THEN countGraphicsObjects(doc[k].fnArray).imageCount
                         ELSE countGraphicsObjects(doc[k].fnArray).vectorCount)

\* C23: within a call every page is counted once, by one strategy.  In the
\* full pass of extractPdfSmart the running totals are the resource-dictionary
\* counts of the pages done so far, starting from 0 whatever the analysis
\* counted from operator lists, and the returned imageCount and vectorCount
\* are the dictionary counts of pages 1..N; in the other extraction
\* operations the totals are the operator-list counts of the pages done.
C23_OneStrategyPerPage ==
    /\ (fn = "extractPdfSmart" /\ pc \in {"getPage", "getTextContent", "destroy"}) =>
          /\ totalImages = DeclaredTotal(idx, TRUE)
          /\ totalVectors = DeclaredTotal(idx, FALSE)
    /\ (api = "extractPdfSmart" /\ pc = "returned") =>
          /\ result.imageCount = DeclaredTotal(NumPages, TRUE)
          /\ result.vectorCount = DeclaredTotal(NumPages, FALSE)
    /\ ( /\ api \in {"extractPdfData", "extractPdfDataStreaming", "extractPdfStats"}
         /\ pc \in {"getPage", "getTextContent", "getOperatorList", "counting", "destroy"} ) =>
          /\ totalImages = OperatorListTotal(idx, TRUE)
          /\ totalVectors = OperatorListTotal(idx, FALSE)

C23_Witness ==
    /\ api = "extractPdfSmart"
    /\ pc = "returned"
    /\ doc = <<ScanPage, VectorPage>>
    /\ Cardinality(CallsOf("getOperatorList", TRUE)) = 2
    /\ OperatorListTotal(2, FALSE) = 2
    /\ result.imageCount = 2
    /\ result.vectorCount = 3

\* the texts of pages 1..k with one newline between neighbours
RECURSIVE JoinedPageTexts(_)
JoinedPageTexts(k) ==
    IF k = 0 THEN <<>>
    ELSE IF k = 1 THEN doc[1].pageText
    ELSE JoinedPageTexts(k - 1) \o <<"\n">> \o doc[k].pageText

\* t is s without its leading and trailing blanks and newlines
IsTrimOf(t, s) ==
    \E a \in 1..(Len(s) + 1) :
        \E b \in (a - 1)..Len(s) :
            /\ t = SubSeq(s, a, b)
            /\ \A j \in 1..(a - 1) : s[j] \in {" ", "\n"}
            /\ \A j \in (b + 1)..Len(s) : s[j] \in {" ", "\n"}
            /\ (a <= b => (s[a] \notin {" ", "\n"} /\ s[b] \notin {" ", "\n"}))

\* the onPageProcessed events of a complete run, as the document fixes them
EventsOfDocument ==
    /\ Len(events) = NumPages
    /\ \A k \in 1..NumPages :
          events[k] = [pageNum |-> k,
                       totalPages |-> NumPages,
                       currentImages |-> countGraphicsObjects(doc[k].fnArray).imageCount,
                       currentVectors |-> countGraphicsObjects(doc[k].fnArray).vectorCount]

\* C24: in extractPdfDataStreaming and extractPdfStats extractText touches
\* the text only.  Without it no getTextContent request is made and the text
\* returned is empty; with it the text is the page texts in page order
\* joined by newlines, trimmed.  Either way imageCount, vectorCount, the
\* pages visited and the events are what the document alone determines, so
\* they are the same in both runs.
C24_ExtractTextTouchesOnlyText ==
    api \in {"extractPdfDataStreaming", "extractPdfStats"} =>
        /\ (~extractText =>
              /\ pc # "getTextContent"
              /\ \A k \in 1..Len(calls) : calls[k].req # "getTextContent")
        /\ (pc = "returned" =>
              /\ result.imageCount = OperatorListTotal(NumPages, TRUE)
              /\ result.vectorCount = OperatorListTotal(NumPages, FALSE)
              /\ PagesFetched(Len(calls)) = [k \in 1..NumPages |-> k]
              /\ (IF hasCallback THEN EventsOfDocument ELSE events = <<>>)
              /\ (IF extractText
                  THEN IsTrimOf(result.text, JoinedPageTexts(NumPages))
                  ELSE result.text = <<>>))

C24_Witness ==
    /\ api = "extractPdfStats"
    /\ ~extractText
    /\ hasCallback
    /\ pc = "returned"
    /\ doc = <<TextPage, VectorPage, ScanPage>>
    /\ result.text = <<>>
    /\ result.vectorCount = 2
    /\ Len(events) = 3
    /\ Len(calls) = 8

\* the k-th request of a run that fetches text and operator list of every
\* page: getDocument, then getPage, getTextContent, getOperatorList page by
\* page, then destroy
RequestAt(k) ==
    IF k = 1 THEN <<"getDocument", 0>>
    ELSE IF k = 3 * NumPages + 2 THEN <<"destroy", 0>>
    ELSE LET j == k - 2
         IN << CASE j % 3 = 0 -> "getPage"
                 [] j % 3 = 1 -> "getTextContent"
                 [] OTHER -> "getOperatorList",
               (j \div 3) + 1 >>

\* C25: with default options (extractText true, no callback) extractPdfData
\* and extractPdfDataStreaming make the same requests to the parser in the
\* same order and return the same text (the page texts in order, one newline
\* between them, trimmed), the same imageCount and the same vectorCount.
C25_DataAndStreamingAgree ==
    ( /\ api \in {"extractPdfData", "extractPdfDataStreaming"}
      /\ extractText
      /\ ~hasCallback ) =>
        /\ Len(calls) <= 3 * NumPages + 2
        /\ \A k \in 1..Len(calls) : <<calls[k].req, calls[k].page>> = RequestAt(k)
        /\ (pc = "returned" =>
              /\ Len(calls) = 3 * NumPages + 2
              /\ IsTrimOf(result.text, JoinedPageTexts(NumPages))
              /\ result.imageCount = OperatorListTotal(NumPages, TRUE)
              /\ result.vectorCount = OperatorListTotal(NumPages, FALSE)
              /\ result.pages = 0
              /\ result.pdfType = "")

C25_Witness ==
    /\ api = "extractPdfData"
    /\ pc = "returned"
    /\ doc = <<InlinePage, TextPage, VectorPage>>
    /\ result.text = <<"a", " ", "b", "\n", "x">>
    /\ result.imageCount = 1
    /\ result.vectorCount = 2

\* the sum of currentImages, or of currentVectors, over events 1..k
RECURSIVE EventSum(_, _)
EventSum(k, images) ==
    IF k = 0 THEN 0
    ELSE EventSum(k - 1, images)
            + (IF images THEN events[k].currentImages ELSE events[k].currentVectors)

\* C26: in extractPdfDataStreaming and extractPdfStats with an
\* onPageProcessed callback, whenever a page has been finished the running
\* totals are the sums of currentImages and currentVectors over the events
\* emitted so far; a run that returns gives imageCount and vectorCount equal
\* to the sums over all N events, both natural numbers, and extractPdfStats
\* gives pages = N.
C26_TotalsAreEventSums ==
    (api \in {"extractPdfDataStreaming", "extractPdfStats"} /\ hasCallback) =>
        /\ (pc \in {"getPage", "getTextContent", "getOperatorList", "counting",
                    "destroy", "returned", "rejected"} /\ CallsOf("getDocument", TRUE) # {}) =>
              /\ totalImages = EventSum(Len(events), TRUE)
              /\ totalVectors = EventSum(Len(events), FALSE)
        /\ (pc = "returned" =>
              /\ Len(events) = NumPages
              /\ result.imageCount = EventSum(NumPages, TRUE)
              /\ result.vectorCount = EventSum(NumPages, FALSE)
              /\ result.imageCount \in Nat
              /\ result.vectorCount \in Nat
              /\ (api = "extractPdfStats" => result.pages = NumPages))

C26_Witness ==
    /\ api = "extractPdfDataStreaming"
    /\ hasCallback
    /\ pc = "getPage"
    /\ doc = <<ScanPage, VectorPage, ScanPage>>
    /\ Len(events) = 2
    /\ totalImages = 1
    /\ totalVectors = 2

\* C27: a run of extractPdfSmart with onProgress that returns, on a document
\* of N >= 1 pages, has emitted: 'analyzing' with progress 0; 'analyzed' with
\* progress 0.1 and the pdfType and confidence found; then N 'extracting'
\* events with currentPage 1, 2, .., N and totalPages N.  The progress
\* values never decrease, lie in [0,1], and the last one is 1.
C27_ProgressEvents ==
    (api = "extractPdfSmart" /\ hasCallback /\ pc = "returned") =>
        /\ Len(events) = NumPages + 2
        /\ events[1] = [stage |-> "analyzing", progress |-> Rat(0, 1)]
        /\ events[2].stage = "analyzed"
        /\ JsEq(events[2].progress, Rat(1, 10))
        /\ events[2].pdfType = result.pdfType
        /\ events[2].confidence = result.confidence
        /\ \A k \in 1..NumPages :
              /\ events[k + 2].stage = "extracting"
              /\ events[k + 2].currentPage = k
              /\ events[k + 2].totalPages = NumPages
        /\ \A k \in 1..Len(events) :
              /\ JsLe(Rat(0, 1), events[k].progress)
              /\ JsLe(events[k].progress, Rat(1, 1))
              /\ (k > 1 => JsLe(events[k - 1].progress, events[k].progress))
        /\ JsEq(events[Len(events)].progress, Rat(1, 1))

C27_Witness ==
    /\ api = "extractPdfSmart"
    /\ hasCallback
    /\ pc = "returned"
    /\ doc = <<ScanPage, TextPage, VectorPage>>
    /\ Len(events) = 5
    /\ events[2].pdfType = "scan"
    /\ JsEq(events[4].progress, Rat(7, 10))
    /\ events[5].currentPage = 3

\* the getDocument and destroy requests among calls 1..k, in order
RECURSIVE LoadsAndDestroys(_)
LoadsAndDestroys(k) ==
    IF k = 0 THEN <<>>
    ELSE IF calls[k].req \in {"getDocument", "destroy"}
         THEN Append(LoadsAndDestroys(k - 1), calls[k].req)
         ELSE LoadsAndDestroys(k - 1)

\* documents loaded and not yet destroyed
OpenDocuments ==
    Cardinality(CallsOf("getDocument", TRUE)) - Cardinality(CallsOf("destroy", TRUE))

\* C28: in extractPdfSmart at most one document is open at any moment; the
\* document of the analysis is destroyed before the load for the full pass is
\* requested, and a run that returns has made exactly the requests load,
\* destroy, load, destroy, in that order.
C28_OneDocumentAtATime ==
    api = "extractPdfSmart" =>
        /\ OpenDocuments \in {0, 1}
        /\ (pc = "getDocument" => OpenDocuments = 0)
        /\ (fn = "extractPdfSmart" /\ pc = "getDocument") =>
              LoadsAndDestroys(Len(calls)) = <<"getDocument", "destroy">>
        /\ (pc = "returned" =>
              /\ LoadsAndDestroys(Len(calls)) =
                    <<"getDocument", "destroy", "getDocument", "destroy">>
              /\ calls[Len(calls)].req = "destroy"
              /\ OpenDocuments = 0)

C28_Witness ==
    /\ api = "extractPdfSmart"
    /\ pc = "returned"
    /\ Len(doc) = 2
    /\ LoadsAndDestroys(Len(calls)) = <<"getDocument", "destroy", "getDocument", "destroy">>
    /\ calls[Len(calls)].req = "destroy"
    /\ OpenDocuments = 0

====
